---- MODULE Spec2Model ----
(***************************************************************************)
(* Model of lib/muscle.py, class Align: locating a column region of a      *)
(* multiple-sequence alignment (edges, running average, static), trimming  *)
(* every record to it, and snipping the longest run free of 'N' columns.   *)
(*                                                                         *)
(* Column indices, slice bounds and row indices are Python's (0-based);    *)
(* TLA+ sequences are 1-based, so element c of a Python sequence s is      *)
(* s[c + 1] here.  Python's None is modelled by tagged records (isNone),   *)
(* a float by an exact fraction [num, den].                                *)
(***************************************************************************)
EXTENDS Integers, Sequences, FiniteSets, TLC

\* ---- bounds of the model ----
MaxCols == 3
MaxWindow == 3
MaxBases == 2
ThresholdDen == 2

\* ---- program constants ----
DefaultWindow == 20

\* an input holds a lone locus record, or a locus record and the probe
RecordCounts == {1, 2}
\* a base, the ambiguity symbol and the gap symbol
Symbols == {"A", "N", "-"}
\* record ids by row
Names == <<"s1", "s2", "s3", "s4", "s5", "s6">>

VARIABLES input, alignment, ploc, trimmed_alignment, perfect_trimmed_alignment,
          trimmed_alignment_summary, call, located, raised, notice, pc

vars == <<input, alignment, ploc, trimmed_alignment, perfect_trimmed_alignment,
          trimmed_alignment_summary, call, located, raised, notice, pc>>

\* ---- Python values ----
NoneAlignment == [isNone |-> TRUE, records |-> << >>]
Alignment(recs) == [isNone |-> FALSE, records |-> recs]
NoneInt == [isNone |-> TRUE, val |-> 0]
Int_(v) == [isNone |-> FALSE, val |-> v]
Frac(n, d) == [num |-> n, den |-> d]

Min(S) == CHOOSE x \in S : \A y \in S : x <= y
Max(S) == CHOOSE x \in S : \A y \in S : x >= y

\* bool(alignment): None is false, an Alignment is true iff it has records
Truthy(a) == ~a.isNone /\ Len(a.records) > 0

\* s[a:b] with Python's clamping and negative indices
PySlice(s, a, b) ==
    LET n  == Len(s)
        lo == IF a < 0 THEN (IF a + n < 0 THEN 0 ELSE a + n)
                       ELSE (IF a > n THEN n ELSE a)
        hi == IF b < 0 THEN (IF b + n < 0 THEN 0 ELSE b + n)
                       ELSE (IF b > n THEN n ELSE b)
    IN  IF lo < hi THEN SubSeq(s, lo + 1, hi) ELSE << >>

\* SeqRecord.__getitem__(slice): the slice keeps id, name and description
RecordSlice(r, a, b) == [r EXCEPT !.seq = PySlice(r.seq, a, b)]

get_alignment_length(recs) == IF Len(recs) = 0 THEN 0 ELSE Len(recs[1].seq)
get_column(recs, col) == [i \in 1..Len(recs) |-> recs[i].seq[col + 1]]
InColumn(sym, recs, col) == \E i \in 1..Len(recs) : recs[i].seq[col + 1] = sym

\* the records an input file can hold: equal lengths, description
\* "uce|<id>"; a lone locus record, or a locus record with the probe added
\* at the bottom
MakeRecord(i, n, seqs) ==
    LET nm == IF n > 1 /\ i = n THEN "probe" ELSE Names[i]
    IN  [id |-> nm, name |-> nm, description |-> <<"uce", nm>>, seq |-> seqs[i]]
MakeInput(n, seqs) == [i \in 1..n |-> MakeRecord(i, n, seqs)]

\* ---- Region Locator ----

\* mutant of _find_ends: the forward flag is ignored (always scans forward)
find_ends_ignoring_direction(recs, forward) ==
    LET L     == get_alignment_length(recs)
        NoGap == {c \in 0..(L - 1) : ~InColumn("-", recs, c)}
    IN  IF NoGap = {} THEN L - 1 ELSE Min(NoGap)

\* _find_ends: the first column, in scan order, that holds no '-'; when
\* the loop never breaks, col is left at the last column of the scan
find_ends(recs, forward) ==
    LET L     == get_alignment_length(recs)
        NoGap == {c \in 0..(L - 1) : ~InColumn("-", recs, c)}
    IN  IF forward
        THEN (IF NoGap = {} THEN L - 1 ELSE Min(NoGap))
        ELSE (IF NoGap = {} THEN 0 ELSE Max(NoGap))

\* int(round(x, 0)) of a non-negative fraction: Python 2 rounds half away
\* from zero
IntRound(n, d) == (2 * n + d) \div (2 * d)

CountOf(sym, col) == Cardinality({i \in DOMAIN col : col[i] = sym})
Distinct(col) == {col[i] : i \in DOMAIN col}
\* del column_values[k]
DelIndex(col, k) ==
    [i \in 1..(Len(col) - 1) |-> IF i <= k THEN col[i] ELSE col[i + 1]]
\* [i for i in column_list if i != '-']
StripGaps(col) == SelectSeq(col, LAMBDA x : x # "-")

\* the conservation indicator of one column (the body of either loop)
Indicator(recs, column, proportion, k, running_probe) ==
    LET members == Len(recs)
        column_values == get_column(recs, column)
    IN  IF ~running_probe
        THEN LET column_list ==
                    IF CountOf("-", column_values)
                         <= IntRound(proportion.num * members, proportion.den)
                    THEN StripGaps(column_values)
                    ELSE column_values
             IN  IF Cardinality(Distinct(column_list)) > 1 THEN 0 ELSE 1
        ELSE IF Cardinality(Distinct(DelIndex(column_values, k))) > 1
             THEN 0 ELSE 1

Differences(recs, proportion, k, running_probe) ==
    [c \in 1..get_alignment_length(recs) |->
        Indicator(recs, c - 1, proportion, k, running_probe)]

RECURSIVE SumOver(_, _, _)
SumOver(d, lo, hi) == IF lo > hi THEN 0 ELSE d[lo] + SumOver(d, lo + 1, hi)

\* numpy.convolve(differences, weight), mode 'full': element j is the sum
\* of differences[i] * weight[j - i]; every weight is 1/window_size, so
\* the element is kept as its numerator over window_size
Convolve(d, window_size) ==
    [j \in 1..(Len(d) + window_size - 1) |->
        SumOver(d, IF j - window_size + 1 < 1 THEN 1 ELSE j - window_size + 1,
                   IF j > Len(d) THEN Len(d) ELSE j)]

\* mutant of WindowSlice: only the leading partial windows are cut off
WindowSlice_keep_tail(full, window_size) ==
    PySlice(full, window_size - 1, Len(full))

\* [window_size-1:-(window_size-1)]; for window_size 1 the stop is -0 = 0
WindowSlice(full, window_size) ==
    PySlice(full, window_size - 1, 0 - (window_size - 1))

\* mutant of Good: the comparison is turned round
Good_at_most(ra, window_size, threshold) ==
    {j \in 0..(Len(ra) - 1) :
        ra[j + 1] * threshold.den <= threshold.num * window_size}

\* numpy.where(running_average >= threshold)[0]; the mean ra[j] / window_size
\* and the threshold are compared as exact fractions
Good(ra, window_size, threshold) ==
    {j \in 0..(Len(ra) - 1) :
        ra[j + 1] * threshold.den >= threshold.num * window_size}

running_average(recs, window_size, threshold, proportion, k, running_probe) ==
    LET differences == Differences(recs, proportion, k, running_probe)
        ra   == WindowSlice(Convolve(differences, window_size), window_size)
        good == Good(ra, window_size, threshold)
    IN  IF good = {}
        THEN [start |-> NoneInt, end |-> NoneInt]
        ELSE [start |-> Int_(Min(good)), end |-> Int_(Max(good) + window_size)]

\* ---- probe location ----
RECURSIVE LeadingGaps(_)
LeadingGaps(s) ==
    IF s = << >> \/ Head(s) # "-" THEN 0 ELSE 1 + LeadingGaps(Tail(s))
RECURSIVE TrailingGaps(_)
TrailingGaps(s) ==
    IF s = << >> \/ s[Len(s)] # "-" THEN 0
    ELSE 1 + TrailingGaps(SubSeq(s, 1, Len(s) - 1))

ProbeRows(recs) == {i \in 1..Len(recs) : recs[i].id = "probe"}

\* get_probe_location: the record with id 'probe' nearest the bottom; ploc is
\* (end of the leading gap run, start of the trailing gap run)
ProbeLocation(recs) ==
    LET seq == recs[Max(ProbeRows(recs))].seq
    IN  [set |-> TRUE, start |-> LeadingGaps(seq),
         end |-> Len(seq) - TrailingGaps(seq)]

\* ---- Trimmer ----

\* the anchor handed to _base_checker: the integer mid_point or the ploc pair
IntLoc(m) == [isInt |-> TRUE, a |-> m, b |-> m]
PairLoc(p) == [isInt |-> FALSE, a |-> p.start, b |-> p.end]

\* _base_checker: len(loc) of an integer raises TypeError; for a pair the
\* result is True when bases fits on both sides, else None
base_checker(bases, sequence, loc) ==
    IF loc.isInt
    THEN [raised |-> "TypeError", value |-> FALSE]
    ELSE [raised |-> "none",
          value  |-> /\ ~(bases > Len(PySlice(sequence.seq, 0, loc.a)))
                     /\ ~(bases > Len(PySlice(sequence.seq, loc.b,
                                              Len(sequence.seq))))]

\* _record_formatter: the name sequence is neither a parameter nor a global,
\* so the first assignment from it raises NameError
record_formatter(temp) ==
    [raised |-> "NameError",
     value  |-> [id |-> "<unknown id>", name |-> "<unknown name>",
                 description |-> <<"<unknown description>">>, seq |-> temp]]

\* self.trimmed_alignment._records.append(r)
AppendRecord(st, r) ==
    IF st.ta.isNone
    THEN [st EXCEPT !.raised = "AttributeError"]
    ELSE [st EXCEPT !.ta = Alignment(Append(st.ta.records, r))]

\* if start >= 0 and end  (Python 2: None >= 0 is False; 0 and None are false)
RegionOk(loc) ==
    /\ ~loc.start.isNone /\ loc.start.val >= 0
    /\ ~loc.end.isNone /\ loc.end.val # 0

\* one pass of the body of "for sequence in self.alignment"; the last elif
\* of the chain (static with remove_probe) is masked by the remove_probe
\* branch before it and has no branch here
TrimBody(sequence, c, loc, p, st) ==
    IF c.method \in {"edges", "running", "running-probe"} /\ ~c.remove_probe
    THEN IF RegionOk(loc)
         THEN AppendRecord(st, RecordSlice(sequence, loc.start.val, loc.end.val))
         ELSE [st EXCEPT !.ta = NoneAlignment, !.brk = TRUE]
    ELSE IF c.method = "static" /\ ~c.remove_probe /\ c.bases # 0
    THEN LET mid_point == Len(sequence.seq) \div 2
             chk == base_checker(c.bases, sequence, IntLoc(mid_point))
         IN  IF chk.raised # "none" THEN [st EXCEPT !.raised = chk.raised]
             ELSE IF chk.value
             THEN AppendRecord(st, RecordSlice(sequence, mid_point - c.bases,
                                               mid_point + c.bases))
             ELSE [st EXCEPT !.ta = NoneAlignment]
    ELSE IF c.method = "static" /\ ~c.remove_probe /\ c.bases # 0 /\ p.set
    THEN LET chk == base_checker(c.bases, sequence, PairLoc(p))
         IN  IF chk.raised # "none" THEN [st EXCEPT !.raised = chk.raised]
             ELSE IF chk.value
             THEN AppendRecord(st, RecordSlice(sequence, p.start - c.bases,
                                               p.end + c.bases))
             ELSE [st EXCEPT !.ta = NoneAlignment]
    ELSE IF c.remove_probe
    THEN IF ~p.set THEN [st EXCEPT !.raised = "AttributeError"]
         ELSE LET temp == PySlice(sequence.seq, 0, p.start)
                            \o PySlice(sequence.seq, p.end, Len(sequence.seq))
                  fmt  == record_formatter(temp)
              IN  IF fmt.raised # "none" THEN [st EXCEPT !.raised = fmt.raised]
                  ELSE AppendRecord(st, fmt.value)
    ELSE st

RECURSIVE TrimLoop(_, _, _, _, _, _)
TrimLoop(recs, i, c, loc, p, st) ==
    IF i > Len(recs) \/ st.brk \/ st.raised # "none" THEN st
    ELSE TrimLoop(recs, i + 1, c, loc, p, TrimBody(recs[i], c, loc, p, st))

\* the index k left by "for k, v in enumerate(self.alignment)": the first
\* record named 'probe', or the last index when there is none
ProbeIndex(recs) ==
    LET named == {i \in 1..Len(recs) : recs[i].name = "probe"}
    IN  IF named = {} THEN Len(recs) - 1 ELSE Min(named) - 1

\* the (start, end) of the first if/elif chain of trim_alignment; the
\* 'running-probe' call passes k and True positionally, so they arrive as
\* proportion and k (True is 1), and running_probe keeps its default False
Locate(recs, c) ==
    IF c.method = "edges"
    THEN [start |-> Int_(find_ends(recs, TRUE)),
          end |-> Int_(find_ends(recs, FALSE))]
    ELSE IF c.method = "running"
    THEN running_average(recs, c.window_size, c.threshold, Frac(3, 10), 0, FALSE)
    ELSE IF c.method = "running-probe"
    THEN running_average(recs, c.window_size, c.threshold,
                         Frac(ProbeIndex(recs), 1), 1, FALSE)
    ELSE [start |-> NoneInt, end |-> NoneInt]

\* ---- Ambiguity Refiner ----

\* the columns of the trimmed alignment that hold an 'N', in ascending order
AmbiguousColumns(recs) ==
    SelectSeq([c \in 1..get_alignment_length(recs) |-> c - 1],
              LAMBDA col : InColumn("N", recs, col))

\* ambiguous_bases.insert(0, 0); ambiguous_bases.append(length - 1)
WithSentinels(ab, length) == <<0>> \o ab \o <<length - 1>>

\* the loop "for pos in xrange(len(ambiguous_bases))": maximum_pos is the
\* first pair whose difference is strictly the largest, 0 standing for None
RECURSIVE ScanMaximum(_, _, _, _)
ScanMaximum(ab, pos, maximum, maximum_pos) ==
    IF pos > Len(ab) THEN maximum_pos
    ELSE IF pos + 1 <= Len(ab) /\ ab[pos + 1] - ab[pos] > maximum
    THEN ScanMaximum(ab, pos + 1, ab[pos + 1] - ab[pos], pos)
    ELSE ScanMaximum(ab, pos + 1, maximum, maximum_pos)

\* mutant of SnipBlock: the slice starts on the boundary column itself
SnipBlock_from_boundary(sequence, lo, hi) == RecordSlice(sequence, lo, hi)

\* sequence[ambiguous_bases[maximum_pos[0]] + 1 : ambiguous_bases[maximum_pos[1]]]
SnipBlock(sequence, lo, hi) == RecordSlice(sequence, lo + 1, hi)

PerfectTrim(ta) ==
    IF ~Truthy(ta) THEN ta
    ELSE LET recs == ta.records
             found == AmbiguousColumns(recs)
         IN  IF found = << >> THEN ta
             ELSE LET ab == WithSentinels(found, get_alignment_length(recs))
                      mp == ScanMaximum(ab, 1, 0, 0)
                  IN  IF mp # 0
                      THEN Alignment([i \in 1..Len(recs) |->
                                        SnipBlock(recs[i], ab[mp], ab[mp + 1])])
                      ELSE NoneAlignment

\* the arguments trim_alignment is called with (bases 0 stands for None)
TrimCall(m, rp, b, w, t) ==
    [method |-> m, remove_probe |-> rp, bases |-> b, window_size |-> w,
     threshold |-> t]
Thresholds == {Frac(n, ThresholdDen) : n \in 0..ThresholdDen}
Calls ==
    {TrimCall(m, FALSE, 0, DefaultWindow, Frac(1, 2)) : m \in {"edges", "notrim"}}
    \cup {TrimCall(m, FALSE, 0, w, t) :
            <<m, w, t>> \in {"running", "running-probe"} \X (1..MaxWindow)
                              \X Thresholds}
    \cup {TrimCall("static", rp, b, DefaultWindow, Frac(1, 2)) :
            <<rp, b>> \in BOOLEAN \X (0..MaxBases)}
    \cup {TrimCall("edges", TRUE, 0, DefaultWindow, Frac(1, 2))}

Init ==
    /\ \E n \in RecordCounts, c \in 1..MaxCols :
         \E seqs \in [1..n -> [1..c -> Symbols]] :
            input = MakeInput(n, seqs)
    /\ alignment = NoneAlignment
    /\ ploc = [set |-> FALSE, start |-> 0, end |-> 0]
    /\ trimmed_alignment = NoneAlignment
    /\ perfect_trimmed_alignment = NoneAlignment
    /\ trimmed_alignment_summary = FALSE
    /\ call = [method |-> "notrim", remove_probe |-> FALSE, bases |-> 0,
               window_size |-> DefaultWindow, threshold |-> Frac(1, 2)]
    /\ located = [start |-> NoneInt, end |-> NoneInt]
    /\ raised = "none"
    /\ notice = "none"
    /\ pc = "new"

\* _read: the alignment of the input file becomes self.alignment
Read ==
    /\ pc = "new"
    /\ alignment' = Alignment(input)
    /\ pc' = "loaded"
    /\ UNCHANGED <<input, ploc, trimmed_alignment, perfect_trimmed_alignment,
                   trimmed_alignment_summary, call, located, raised, notice>>

\* get_probe_location; without a probe record start is never bound
GetProbeLocation ==
    /\ pc = "loaded"
    /\ ~ploc.set
    /\ IF ProbeRows(alignment.records) = {}
       THEN /\ raised' = "UnboundLocalError"
            /\ pc' = "raised"
            /\ ploc' = ploc
       ELSE /\ ploc' = ProbeLocation(alignment.records)
            /\ UNCHANGED <<raised, pc>>
    /\ UNCHANGED <<input, alignment, trimmed_alignment,
                   perfect_trimmed_alignment, trimmed_alignment_summary, call,
                   located, notice>>

\* self.trimmed_alignment after lines 181-233: the alignment itself for
\* 'notrim', else what the loop leaves (with the exception it raised, if any)
TrimResult(recs, c, loc, p, whole) ==
    IF c.method = "notrim"
    THEN [ta |-> whole, raised |-> "none", brk |-> FALSE]
    ELSE TrimLoop(recs, 1, c, loc, p,
                  [ta |-> Alignment(<< >>), raised |-> "none", brk |-> FALSE])

\* trim_alignment(method, remove_probe, bases, consensus=True, window_size,
\* threshold); a caller that has located the probe goes on to remove it
TrimAlignment(c) ==
    /\ pc = "loaded"
    /\ ploc.set => c.remove_probe
    /\ \E loc \in {Locate(alignment.records, c)} :
       \E st \in {TrimResult(alignment.records, c, loc, ploc, alignment)} :
           /\ call' = c
           /\ located' = loc
           /\ trimmed_alignment' = st.ta
           /\ raised' = st.raised
           /\ IF st.raised # "none"
              THEN /\ pc' = "raised"
                   /\ UNCHANGED <<trimmed_alignment_summary, notice>>
              ELSE /\ pc' = "trimmed"
                   /\ trimmed_alignment_summary' = Truthy(st.ta)
                   /\ notice' = IF Truthy(st.ta) THEN notice
                                ELSE alignment.records[1].description[2]
    /\ UNCHANGED <<input, alignment, ploc, perfect_trimmed_alignment>>

\* trim_ambiguous_bases
TrimAmbiguousBases ==
    /\ pc = "trimmed"
    /\ perfect_trimmed_alignment' = PerfectTrim(trimmed_alignment)
    /\ pc' = "refined"
    /\ UNCHANGED <<input, alignment, ploc, trimmed_alignment,
                   trimmed_alignment_summary, call, located, raised, notice>>

Next ==
    \/ Read
    \/ GetProbeLocation
    \/ \E c \in Calls : TrimAlignment(c)
    \/ TrimAmbiguousBases

Spec == Init /\ [][Next]_vars

\* ---- properties ----

recs == alignment.records
NumCols == get_alignment_length(recs)
\* a trim_alignment call has run (to its end or to an exception)
Called == pc \in {"trimmed", "refined"}
            \/ (pc = "raised" /\ raised # "UnboundLocalError")
Region(a, b) == [start |-> Int_(a), end |-> Int_(b)]
NoRegion == [start |-> NoneInt, end |-> NoneInt]
Width(loc) == IF loc.start.isNone THEN 0 ELSE loc.end.val - loc.start.val
LessEq(t1, t2) == t1.num * t2.den <= t2.num * t1.den

\* C1: for 1 <= w <= C, running_average evaluates the C - w + 1 window
\* positions 0..C-w, each the mean of the indicators of columns i..i+w-1;
\* start is the smallest position with mean >= threshold, end the largest
\* such position + w, and (None, None) is returned exactly when there is none
C1_WindowPositions ==
    (Called /\ call.method = "running"
       /\ 1 <= call.window_size /\ call.window_size <= NumCols)
    => LET w == call.window_size
           d == Differences(recs, Frac(3, 10), 0, FALSE)
           meets == {i \in 0..(NumCols - w) :
                       SumOver(d, i + 1, i + w) * call.threshold.den
                         >= call.threshold.num * w}
       IN  located = IF meets = {} THEN NoRegion
                     ELSE Region(Min(meets), Max(meets) + w)

\* C2: edges trimming of an alignment without any gap locates
\* (0, last column) and leaves every record with all of its columns
C2_NoGapsUnchanged ==
    (Called /\ call.method = "edges" /\ ~call.remove_probe
       /\ \A c \in 0..(NumCols - 1) : ~InColumn("-", recs, c))
    => /\ located = Region(0, NumCols - 1)
       /\ trimmed_alignment = alignment

\* C3: with a located probe, remove_probe yields one record per input record,
\* in order, holding columns [0, ps) and [pe, length) and the input record's
\* id, name and description
C3_ProbeRemoved ==
    (Called /\ call.remove_probe /\ ploc.set)
    => trimmed_alignment =
         Alignment([i \in 1..Len(recs) |->
            [recs[i] EXCEPT !.seq =
                PySlice(recs[i].seq, 0, ploc.start)
                  \o PySlice(recs[i].seq, ploc.end, Len(recs[i].seq))]])

\* C4: when column k (0 < k < L-1) is the only ambiguous column of the
\* trimmed alignment, every record is cut to the longer of [0, k) and
\* [k+1, L), the left one on a tie
C4_SingleAmbiguity ==
    (pc = "refined" /\ Truthy(trimmed_alignment)
       /\ Len(AmbiguousColumns(trimmed_alignment.records)) = 1
       /\ AmbiguousColumns(trimmed_alignment.records)[1] > 0
       /\ AmbiguousColumns(trimmed_alignment.records)[1]
            < get_alignment_length(trimmed_alignment.records) - 1)
    => LET tr == trimmed_alignment.records
           L  == get_alignment_length(tr)
           k  == AmbiguousColumns(tr)[1]
       IN  perfect_trimmed_alignment =
             Alignment([i \in 1..Len(tr) |->
                IF k >= L - 1 - k THEN RecordSlice(tr[i], 0, k)
                ELSE RecordSlice(tr[i], k + 1, L)])

\* C5: running-probe locates the region from indicators computed with the
\* probe's symbol deleted from every column
C5_ProbeExcluded ==
    (Called /\ call.method = "running-probe" /\ ProbeRows(recs) # {}
       /\ Len(recs) >= 2)
    => located = running_average(recs, call.window_size, call.threshold,
                                 Frac(3, 10), ProbeIndex(recs), TRUE)

\* C6: static trimming with bases beyond either flank of the midpoint fails
\* the bounds check and drops the alignment
C6_StaticDropped ==
    (Called /\ call.method = "static" /\ ~call.remove_probe /\ call.bases > 0
       /\ (call.bases > NumCols \div 2
             \/ call.bases > NumCols - NumCols \div 2))
    => trimmed_alignment = NoneAlignment

\* C7 as stated: every window_size >= the column count (the column count
\* itself included) gives (None, None) and a dropped alignment
C7_WindowAtLeastColumns ==
    (Called /\ call.method = "running" /\ call.window_size >= NumCols)
    => (located = NoRegion /\ trimmed_alignment = NoneAlignment)

\* C7 amended: every window_size larger than the column count gives
\* (None, None), and trim_alignment('running') drops the alignment without
\* slicing a record
C7_WindowBeyondColumns ==
    (Called /\ call.method = "running" /\ call.window_size > NumCols)
    => (located = NoRegion /\ trimmed_alignment = NoneAlignment
          /\ raised = "none")

C7_Witness ==
    /\ Called /\ call.method = "running" /\ call.window_size > NumCols
    /\ NumCols >= 2 /\ call.threshold.num = 0
    /\ trimmed_alignment = NoneAlignment

\* C8: edges trimming of an alignment whose every column holds a gap drops
\* the alignment
C8_AllGapColumnsDropped ==
    (Called /\ call.method = "edges" /\ ~call.remove_probe
       /\ \A c \in 0..(NumCols - 1) : InColumn("-", recs, c))
    => (trimmed_alignment = NoneAlignment /\ raised = "none")

C8_Witness ==
    /\ Called /\ call.method = "edges" /\ ~call.remove_probe
    /\ NumCols >= 2 /\ Len(recs) >= 2
    /\ \A c \in 0..(NumCols - 1) : InColumn("-", recs, c)
    /\ \E c \in 0..(NumCols - 1) : InColumn("A", recs, c)
    /\ trimmed_alignment = NoneAlignment

\* C9: the region running_average returns is never wider for a higher
\* threshold than for a lower one ((None, None) counting as width 0)
C9_MonotonicInThreshold ==
    (Called /\ call.method = "running")
    => \A t \in Thresholds :
         LET other == running_average(recs, call.window_size, t,
                                      Frac(3, 10), 0, FALSE)
         IN  /\ LessEq(t, call.threshold) => Width(located) <= Width(other)
             /\ LessEq(call.threshold, t) => Width(other) <= Width(located)

C9_Witness ==
    /\ Called /\ call.method = "running"
    /\ Width(located) > 0
    /\ \E t \in Thresholds :
         /\ LessEq(call.threshold, t)
         /\ Width(running_average(recs, call.window_size, t,
                                  Frac(3, 10), 0, FALSE)) < Width(located)

\* C10: a perfect_trimmed_alignment that is not None is a contiguous column
\* range of trimmed_alignment (same records, same order) without any 'N'
C10_PerfectIsCleanSubrange ==
    (pc = "refined" /\ ~perfect_trimmed_alignment.isNone)
    => LET tr == trimmed_alignment.records
           pf == perfect_trimmed_alignment.records
       IN  /\ ~trimmed_alignment.isNone
           /\ \E a, b \in 0..get_alignment_length(tr) :
                /\ a <= b
                /\ pf = [i \in 1..Len(tr) |-> RecordSlice(tr[i], a, b)]
           /\ \A i \in 1..Len(pf) : \A j \in 1..Len(pf[i].seq) :
                pf[i].seq[j] # "N"

C10_Witness ==
    /\ pc = "refined" /\ ~perfect_trimmed_alignment.isNone
    /\ Truthy(trimmed_alignment)
    /\ AmbiguousColumns(trimmed_alignment.records) # << >>
    /\ get_alignment_length(perfect_trimmed_alignment.records) >= 1
====
